---- MODULE Spec2Model ----
(***************************************************************************)
(* Model of the Welch PSD estimator of src/src/Measurements/Psd.cpp:       *)
(* class PSD (setup, computeSegment, getResult, clear), its file-scope     *)
(* scratch buffers vReal/vImag and the helper getAverage.                  *)
(*                                                                         *)
(* A double is modelled by the exact real number it stands for: a pair     *)
(* <<n, d>> read as n/d, kept in lowest terms with d >= 0.  d = 0 carries  *)
(* the IEEE specials: <<1,0>> is +inf, <<-1,0>> is -inf, <<0,0>> is NaN.    *)
(* Rounding of the 53-bit mantissa is not modelled.                        *)
(***************************************************************************)
EXTENDS Integers, Sequences, FiniteSets, TLC

(***************************************************************************)
(* Bounds of the model and program constants                               *)
(***************************************************************************)
\* capacity of _bins, vReal and vImag (PSD::samplesCountMax, scaled down)
samplesCountMax == 2
\* callers stop adding segments once the counter reaches this value
MaxSegments == 2
\* with two estimators, callers stop adding segments to one once its
\* counter reaches this value
MaxTwoSegments == 1
\* samples are drawn from -1 .. MaxSample
MaxSample == 0
\* sampling frequencies are drawn from 1 .. MaxFrequency
MaxFrequency == 2

(***************************************************************************)
(* Exact arithmetic on doubles                                             *)
(***************************************************************************)
Abs(x) == IF x < 0 THEN -x ELSE x

Sign(x) == IF x < 0 THEN -1 ELSE IF x > 0 THEN 1 ELSE 0

RECURSIVE GCD(_, _)
GCD(a, b) == IF b = 0 THEN a ELSE GCD(b, a % b)

\* n/d in lowest terms; x/0 is an infinity and 0/0 is NaN, as in IEEE 754
Dbl(n, d) ==
    IF d = 0 THEN <<Sign(n), 0>>
    ELSE IF d = 1 THEN <<n, 1>>
    ELSE LET g == GCD(Abs(n), Abs(d))
         IN  <<Sign(d) * (n \div g), Abs(d) \div g>>

Zero == <<0, 1>>

NaN == <<0, 0>>

FromInt(k) == <<k, 1>>

\* x + y, over the least common denominator
DAdd(x, y) ==
    IF x[2] = 0 /\ y[2] = 0 THEN (IF x = y THEN x ELSE NaN)
    ELSE IF x[2] = 0 THEN x
    ELSE IF y[2] = 0 THEN y
    ELSE LET g == GCD(x[2], y[2])
         IN  Dbl(x[1] * (y[2] \div g) + y[1] * (x[2] \div g), x[2] * (y[2] \div g))

\* x * y, cancelling common factors first; inf * 0 is NaN
DMul(x, y) ==
    IF x[2] = 0 \/ y[2] = 0 THEN <<Sign(x[1]) * Sign(y[1]), 0>>
    ELSE LET g1 == GCD(Abs(x[1]), y[2])
             g2 == GCD(Abs(y[1]), x[2])
         IN  Dbl((x[1] \div g1) * (y[1] \div g2), (x[2] \div g2) * (y[2] \div g1))

\* x / y; a finite x over zero is an infinity, 0/0 and inf/inf are NaN
DDiv(x, y) ==
    IF y[2] = 0 THEN (IF x[2] = 0 THEN NaN ELSE Zero)
    ELSE IF y[1] = 0 THEN <<Sign(x[1]), 0>>
    ELSE DMul(x, <<Sign(y[1]) * y[2], Abs(y[1])>>)

\* double divided by a size_t (converted to double)
DDivInt(x, k) == DDiv(x, FromInt(k))

\* sqrt(x) for a finite x >= 0, kept symbolic: <<n, d, 2>> reads sqrt(n/d)
DSqrt(x) == <<x[1], x[2], 2>>

\* x * x, exact also for a symbolic square root
DSqr(x) == IF Len(x) = 3 THEN <<x[1], x[2]>> ELSE DMul(x, x)

\* static_cast of a finite double to an integer type: truncation toward zero
TruncToInt(x) == Sign(x[1]) * (Abs(x[1]) \div x[2])

(***************************************************************************)
(* Indexing of the fixed-size arrays                                       *)
(***************************************************************************)
\* the two estimator objects of SpecTwo
Instances == {1, 2}

\* valid indices of _bins, vReal and vImag
BinIdx == 0 .. (samplesCountMax - 1)

\* the indices a loop "for (idx = 0; idx < count; idx++)" visits
LoopIdx(count) == 0 .. (count - 1)

\* highest index of a set of visited indices, -1 when none was visited
HighestIdx(S) == IF S = {} THEN -1 ELSE CHOOSE m \in S : \A i \in S : i <= m

(***************************************************************************)
(* Transform Engine (ArduinoFFT<double>): windowing, compute and           *)
(* complexToMagnitude, in place on arrays of length samplesCountMax.       *)
(* The transform is defined for the power-of-two lengths 1, 2 and 4, for   *)
(* which the Hamming weights and the twiddle factors are rational.         *)
(***************************************************************************)
\* cos(2*pi*i/m) for the ratios the window of length m + 1 <= 4 uses
CosTwoPi(i, m) == IF i = 0 THEN FromInt(1) ELSE Dbl(-1, 2)

\* Hamming weight 0.54 - 0.46 * cos(2*pi*i/(n-1))
HammingFactor(i, n) ==
    DAdd(Dbl(54, 100), DMul(Dbl(-46, 100), CosTwoPi(i, n - 1)))

\* fft.windowing(vData, n, FFT_WIN_TYP_HAMMING, FFT_FORWARD): the weight of
\* index i < n/2 multiplies vData[i] and vData[n - (i + 1)]
Windowing(vData, n) ==
    [i \in BinIdx |->
        IF i < n \div 2 THEN DMul(vData[i], HammingFactor(i, n))
        ELSE IF i < n /\ n - (i + 1) < n \div 2
             THEN DMul(vData[i], HammingFactor(n - (i + 1), n))
             ELSE vData[i]]

\* real and imaginary part of exp(-2*pi*i*q/4), q in 0..3
TwiddleRe(q) == IF q = 0 THEN 1 ELSE IF q = 2 THEN -1 ELSE 0

TwiddleIm(q) == IF q = 1 THEN -1 ELSE IF q = 3 THEN 1 ELSE 0

RECURSIVE DftRe(_, _, _, _, _)
DftRe(vR, vI, n, k, j) ==
    IF j = n THEN Zero
    ELSE LET q == (j * k * (4 \div n)) % 4
         IN  DAdd(DAdd(DMul(vR[j], FromInt(TwiddleRe(q))),
                       DMul(vI[j], FromInt(-TwiddleIm(q)))),
                  DftRe(vR, vI, n, k, j + 1))

RECURSIVE DftIm(_, _, _, _, _)
DftIm(vR, vI, n, k, j) ==
    IF j = n THEN Zero
    ELSE LET q == (j * k * (4 \div n)) % 4
         IN  DAdd(DAdd(DMul(vR[j], FromInt(TwiddleIm(q))),
                       DMul(vI[j], FromInt(TwiddleRe(q)))),
                  DftIm(vR, vI, n, k, j + 1))

\* fft.compute(vReal, vImag, n, FFT_FORWARD): the pair of arrays after the call
Compute(vR, vI, n) ==
    << [k \in BinIdx |-> IF k < n THEN DftRe(vR, vI, n, k, 0) ELSE vR[k]],
       [k \in BinIdx |-> IF k < n THEN DftIm(vR, vI, n, k, 0) ELSE vI[k]] >>

\* fft.complexToMagnitude(vReal, vImag, n): vReal[i] = sqrt(re^2 + im^2)
ComplexToMagnitude(vR, vI, n) ==
    [i \in BinIdx |->
        IF i < n THEN DSqrt(DAdd(DMul(vR[i], vR[i]), DMul(vI[i], vI[i])))
        ELSE vR[i]]

(***************************************************************************)
(* Inputs                                                                  *)
(***************************************************************************)
\* int16_t sample values the Segment Source supplies
Samples == (-1) .. MaxSample

\* a buffer of len samples, indexed from 0 as in C
Segments(len) == [LoopIdx(len) -> Samples]

\* the buffers handed to the two estimators of SpecTwo: samples at the two
\* ends of the range
TwoSegments(len) == [LoopIdx(len) -> {-1, MaxSample}]

\* segment lengths the contract of setup allows: 1 <= n <= samplesCountMax,
\* powers of two as the transform requires
ValidCounts == {n \in {1, 2, 4} : n <= samplesCountMax}

\* arguments a caller that ignores the contract may pass to setup
AnyCounts == {0} \cup ValidCounts \cup {samplesCountMax + 1}

Frequencies == 1 .. MaxFrequency

AnyFrequencies == 0 .. MaxFrequency

\* the sampling frequency both estimators of SpecTwo are set up with
TwoFrequencies == {MaxFrequency}

\* lengths of the buffer a caller may hand to computeSegment(const int16_t *)
AnyLengths(n) == {l \in {n - 1, n, n + 1} : l >= 1}

\* what computeSegment may read through the pointer, samples[0 .. n-1], over
\* all buffers of len samples: the buffer's first n samples when len >= n;
\* when len < n the reads past its end are undefined and may yield any value
ReadSamples(len, n) == Segments(n)

(***************************************************************************)
(* State                                                                   *)
(***************************************************************************)
VARIABLES
    sampleCount,      \* PSD::_sampleCount
    sampleFrequency,  \* PSD::_sampleFrequency
    segmentCount,     \* PSD::_segmentCount
    bins,             \* PSD::_bins[samplesCountMax]
    vReal,            \* file-scope scratch buffer vReal[samplesCountMax]
    vImag,            \* file-scope scratch buffer vImag[samplesCountMax]
    fault,            \* "none", or how the program left defined behaviour
    lastOp,           \* history: the operation executed last
    argLen,           \* history: length of the buffer given to the last computeSegment
    view,             \* history: _bins as first returned by getResult since the
                      \*          last computeSegment or setup, or None
    viewCleared,      \* history: clear() was called since that getResult
    fresh,            \* history: sum, from zero, of the power of the segments
                      \*          supplied since the last setup or getResult
    supplied,         \* history: how many segments that is
    added,            \* history: segments added to _bins since it was last zeroed
    dirty,            \* history: clear() was called between those segments
    sameSeg,          \* history: the segment all of those segments are equal
                      \*          to, None when they differ or there is none
    afterResult,      \* history: they started right after a getResult that
                      \*          returned a nonzero bin
    reread,           \* history: the last two operations were both getResult
    residual,         \* history: sum of the DC-removed samples of the last
                      \*          operation when it was a computeSegment, else 0
    prevBins,         \* history: when the last operation was a computeSegment,
                      \*          _bins as its accumulation loop found it (after
                      \*          the lazy clear), else None
    prevCount,        \* history: _segmentCount before that computeSegment, else 0
    stale,            \* history: since the last setup, while only getResult
                      \*          followed it: the arguments of that setup and
                      \*          the object as the setup found it; else None
    psd,              \* two estimators psd[1] and psd[2], each with the fields
                      \*          of a PSD object, sharing vReal and vImag
    alone,            \* history: for each of the two, the estimator and the
                      \*          scratch buffers as they would be had the
                      \*          other one's operations not occurred
    lastWriter,       \* history: the estimator whose computeSegment wrote
                      \*          vReal and vImag last, 0 when none did
    crossed           \* history: for each of the two, whether a segment it has
                      \*          counted since it was Idle was computed in
                      \*          buffers the other one had written last and
                      \*          left different from its own

vars == <<sampleCount, sampleFrequency, segmentCount, bins, vReal, vImag, fault,
          lastOp, argLen, view, viewCleared, fresh, supplied, added,
          dirty, sameSeg, afterResult, reread, residual,
          prevBins, prevCount, stale, psd, alone, lastWriter, crossed>>

\* the PSD object and the scratch buffers
psdVars == <<sampleCount, sampleFrequency, segmentCount, bins, vReal, vImag>>

\* the two estimators of SpecTwo and their history
twoVars == <<psd, alone, lastWriter, crossed>>

\* the single estimator of Spec and SpecAny and its history
oneVars == <<sampleCount, sampleFrequency, segmentCount, bins, fault,
             lastOp, argLen, view, viewCleared, fresh, supplied, added,
             dirty, sameSeg, afterResult, reread, residual,
             prevBins, prevCount, stale>>

None == <<>>

\* the amplitude correction of a Hann window, 2.0
windowCorrectionHann == Dbl(2, 1)

\* windowCorrection = 1.59
windowCorrection == Dbl(159, 100)

ZeroArray == [i \in BinIdx |-> Zero]

\* contents of _bins before anything was written: zero (static storage) or
\* indeterminate (automatic storage), one nonzero value standing for the latter
InitialBins == {ZeroArray, [i \in BinIdx |-> FromInt(1)]}

(***************************************************************************)
(* The operations of PSD as functions of the fields they read              *)
(***************************************************************************)
RECURSIVE SumTo(_, _)
SumTo(elements, count) ==
    IF count = 0 THEN 0 ELSE SumTo(elements, count - 1) + elements[count - 1]

\* getAverage dividing by one element too many
getAverageOffByOne(elements, count) ==
    TruncToInt(DDivInt(FromInt(SumTo(elements, count)), count + 1))

\* getAverage<int16_t>: the double sum divided by count, cast back to T
getAverage(elements, count) ==
    TruncToInt(DDivInt(FromInt(SumTo(elements, count)), count))

\* the loop of clear() running to idx <= _sampleCount
ClearLoopInclusive(n) == LoopIdx(n + 1)

\* the indices the loop of clear() writes
ClearLoop(n) == LoopIdx(n)

\* PSD::clear on _bins
ClearBins(b, n) == [i \in BinIdx |-> IF i \in ClearLoop(n) THEN Zero ELSE b[i]]

\* computeSegment without its lazy clear()
LazyResetNever(b, n, count) == b

\* computeSegment, first statement: clear() when no segment is counted
LazyReset(b, n, count) == IF count = 0 THEN ClearBins(b, n) ELSE b

\* the DC-removal loop stopping after the first sample
LoadRealFirstOnly(vR, samples, n) ==
    [i \in BinIdx |->
        IF i < 1 THEN FromInt(samples[i] - getAverage(samples, n)) ELSE vR[i]]

\* computeSegment, DC removal: vReal[idx] = samples[idx] - average
LoadReal(vR, samples, n) ==
    LET average == getAverage(samples, n)
    IN  [i \in BinIdx |-> IF i < n THEN FromInt(samples[i] - average) ELSE vR[i]]

\* the sum of the DC-removed samples vReal[0 .. n-1]
RECURSIVE ResidualSum(_, _)
ResidualSum(vR, n) ==
    IF n = 0 THEN Zero ELSE DAdd(ResidualSum(vR, n - 1), vR[n - 1])

\* computeSegment, DC removal: vImag[idx] = 0
LoadImag(vI, n) == [i \in BinIdx |-> IF i < n THEN Zero ELSE vI[i]]

\* computeSegment, the three calls into the Transform Engine: the pair
\* <<vReal, vImag>> they leave behind.  (The singleton sets bind each
\* intermediate array to its value, so that it is computed once.)
Transform(vR, vI, n) ==
    CHOOSE r \in {<<ComplexToMagnitude(out[1], out[2], n), out[2]>> :
                     out \in {Compute(w, vI, n) : w \in {Windowing(vR, n)}}} : TRUE

\* the power of a bin doubled at every index, the DC bin included
BinPowerDoubleAll(magnitude, idx, fs, n) ==
    DMul(DDivInt(DDivInt(DSqr(magnitude), fs), n), FromInt(2))

\* computeSegment, the power of bin idx: magnitude^2 / fs / n, doubled for idx > 0
BinPower(magnitude, idx, fs, n) ==
    LET bin == DDivInt(DDivInt(DSqr(magnitude), fs), n)
    IN  IF idx > 0 THEN DMul(bin, FromInt(2)) ELSE bin

\* computeSegment, accumulation loop: _bins[idx] += bin
Accumulate(b, magnitudes, n, fs) ==
    [i \in BinIdx |->
        IF i < n THEN DAdd(b[i], BinPower(magnitudes[i], i, fs, n)) ELSE b[i]]

\* the averaging loop without the division by _segmentCount
AverageBinsNoDivide(b, n, count) ==
    [i \in BinIdx |->
        IF i < n THEN DMul(DMul(b[i], windowCorrection), windowCorrection) ELSE b[i]]

\* getResult, averaging loop: (_bins[idx] / _segmentCount) * 1.59 * 1.59
AverageBins(b, n, count) ==
    [i \in BinIdx |->
        IF i < n
        THEN DMul(DMul(DDivInt(b[i], count), windowCorrection), windowCorrection)
        ELSE b[i]]

\* getResult applying the window correction on every call
ResultBinsAlways(b, n, count) ==
    [i \in BinIdx |->
        IF i < n
        THEN DMul(DMul(DDivInt(b[i], IF count > 0 THEN count ELSE 1),
                       windowCorrection), windowCorrection)
        ELSE b[i]]

\* getResult on _bins: averaged only when segments are counted
ResultBins(b, n, count) == IF count > 0 THEN AverageBins(b, n, count) ELSE b

\* setup leaving the counter as it is
SetupCounterKept(count) == count

\* setup: _segmentCount = 0, whatever it was
SetupCounter(count) == 0

\* a loop over n entries leaves the arrays of samplesCountMax entries
Overruns(n) == n > samplesCountMax

\* whole computeSegment on the scratch buffers: <<vReal, vImag>> afterwards
SegmentScratch(vR, vI, samples, n) ==
    CHOOSE r \in {Transform(re, im, n) :
                     re \in {LoadReal(vR, samples, n)}, im \in {LoadImag(vI, n)}} : TRUE

(***************************************************************************)
(* History bookkeeping                                                     *)
(***************************************************************************)
\* segments have been supplied and not yet been read by getResult
Collecting == fresh # None /\ lastOp # "getResult"

ForgetSegments ==
    /\ fresh' = None
    /\ supplied' = 0
    /\ dirty' = FALSE
    /\ sameSeg' = None
    /\ afterResult' = FALSE

KeepSegments == UNCHANGED <<fresh, supplied, dirty, sameSeg, afterResult>>

\* the operation ran off the end of a fixed-size array: behaviour is undefined
\* from here on and nothing more is modelled
Overrun(op) ==
    /\ fault' = "overrun"
    /\ lastOp' = op
    /\ argLen' = -1
    /\ reread' = FALSE
    /\ residual' = Zero
    /\ prevBins' = None
    /\ prevCount' = 0
    /\ stale' = None
    /\ UNCHANGED psdVars
    /\ UNCHANGED <<view, viewCleared, added>>
    /\ KeepSegments

(***************************************************************************)
(* Actions                                                                 *)
(***************************************************************************)
\* void PSD::setup(size_t sampleCount, size_t sampleFrequency)
Setup(n, fs) ==
    /\ fault = "none"
    /\ UNCHANGED twoVars
    /\ sampleCount' = n
    /\ sampleFrequency' = fs
    /\ segmentCount' = SetupCounter(segmentCount)
    /\ UNCHANGED <<bins, vReal, vImag, fault, added>>
    /\ lastOp' = "setup"
    /\ argLen' = -1
    /\ view' = None
    /\ viewCleared' = FALSE
    /\ reread' = FALSE
    /\ residual' = Zero
    /\ prevBins' = None
    /\ prevCount' = 0
    /\ stale' = [sampleCount |-> n, sampleFrequency |-> fs, bins |-> bins,
                 previousCount |-> sampleCount, segmentCount |-> segmentCount]
    /\ ForgetSegments

\* a clear() that also resets the configuration to the full width
ClearResetsWidth ==
    /\ fault = "none"
    /\ UNCHANGED twoVars
    /\ bins' = ClearBins(bins, sampleCount)
    /\ sampleCount' = samplesCountMax
    /\ lastOp' = "clear"
    /\ stale' = None
    /\ UNCHANGED <<sampleFrequency, segmentCount, vReal, vImag, fault, argLen,
                   view, viewCleared, fresh, supplied, added, dirty, sameSeg,
                   afterResult, reread, residual, prevBins, prevCount>>

\* void PSD::clear()
Clear ==
    /\ fault = "none"
    /\ UNCHANGED twoVars
    /\ IF Overruns(HighestIdx(ClearLoop(sampleCount)) + 1)
       THEN Overrun("clear")
       ELSE /\ bins' = ClearBins(bins, sampleCount)
            /\ UNCHANGED <<sampleCount, sampleFrequency, segmentCount, vReal, vImag, fault>>
            /\ lastOp' = "clear"
            /\ argLen' = -1
            /\ added' = 0
            /\ view' = view
            /\ viewCleared' = (view # None)
            /\ reread' = FALSE
            /\ residual' = Zero
            /\ prevBins' = None
            /\ prevCount' = 0
            /\ stale' = None
            /\ IF Collecting
               THEN /\ dirty' = TRUE
                    /\ UNCHANGED <<fresh, supplied, sameSeg, afterResult>>
               ELSE ForgetSegments

\* const double *PSD::getResult()
GetResult ==
    /\ fault = "none"
    /\ UNCHANGED twoVars
    /\ IF segmentCount > 0 /\ Overruns(sampleCount)
       THEN Overrun("getResult")
       ELSE /\ bins' = ResultBins(bins, sampleCount, segmentCount)
            /\ segmentCount' = 0
            /\ UNCHANGED <<sampleCount, sampleFrequency, vReal, vImag, fault, added>>
            /\ lastOp' = "getResult"
            /\ argLen' = -1
            /\ view' = IF view = None THEN bins' ELSE view
            /\ viewCleared' = viewCleared
            /\ reread' = (lastOp = "getResult")
            /\ residual' = Zero
            /\ prevBins' = None
            /\ prevCount' = 0
            /\ stale' = stale
            /\ KeepSegments

\* void PSD::computeSegment(const int16_t *samples), the samples read being
\* `samples` and the caller's buffer holding len of them
ComputeSegment(samples, len) ==
    LET n        == sampleCount
        starting == ~Collecting
    IN  \E reset \in {LazyReset(bins, n, segmentCount)} :
        \E scratch \in {SegmentScratch(vReal, vImag, samples, n)} :
        /\ bins' = Accumulate(reset, scratch[1], n, sampleFrequency)
        /\ vReal' = scratch[1]
        /\ vImag' = scratch[2]
        /\ segmentCount' = segmentCount + 1
        /\ UNCHANGED <<sampleCount, sampleFrequency, fault>>
        /\ lastOp' = "computeSegment"
        /\ argLen' = len
        /\ view' = None
        /\ viewCleared' = FALSE
        /\ fresh' = Accumulate(IF starting THEN ZeroArray ELSE fresh,
                               scratch[1], n, sampleFrequency)
        /\ supplied' = IF starting THEN 1 ELSE supplied + 1
        /\ added' = (IF segmentCount = 0 THEN 0 ELSE added) + 1
        /\ dirty' = IF starting THEN FALSE ELSE dirty
        /\ sameSeg' = IF starting \/ samples = sameSeg THEN samples ELSE None
        /\ afterResult' = IF starting
                          THEN lastOp = "getResult" /\ \E i \in LoopIdx(n) : bins[i] # Zero
                          ELSE afterResult
        /\ reread' = FALSE
        /\ residual' = ResidualSum(LoadReal(vReal, samples, n), n)
        /\ prevBins' = reset
        /\ prevCount' = segmentCount
        /\ stale' = None

\* computeSegment with _sampleCount == 0: getAverage fails assert(count > 0);
\* with assertions compiled out it casts NaN to int16_t, which is undefined
ComputeEmpty ==
    /\ fault' \in {"assert", "undefined"}
    /\ lastOp' = "computeSegment"
    /\ argLen' = 0
    /\ reread' = FALSE
    /\ residual' = Zero
    /\ prevBins' = None
    /\ prevCount' = 0
    /\ stale' = None
    /\ UNCHANGED psdVars
    /\ UNCHANGED <<view, viewCleared, added>>
    /\ KeepSegments

\* computeSegment leaves the arrays: in its lazy clear() or in its own loops
ComputeOverruns ==
    \/ Overruns(sampleCount)
    \/ segmentCount = 0 /\ Overruns(HighestIdx(ClearLoop(sampleCount)) + 1)

\* a caller that keeps the contract: a buffer of exactly _sampleCount samples
ComputeSegmentCall ==
    /\ fault = "none"
    /\ UNCHANGED twoVars
    /\ segmentCount < MaxSegments
    /\ IF ComputeOverruns THEN Overrun("computeSegment")
       ELSE \E samples \in Segments(sampleCount) :
                ComputeSegment(samples, sampleCount)

\* any caller: a buffer of some length, read for _sampleCount samples
ComputeSegmentAny ==
    /\ fault = "none"
    /\ UNCHANGED twoVars
    /\ segmentCount < MaxSegments
    /\ IF sampleCount = 0 THEN ComputeEmpty
       ELSE IF ComputeOverruns THEN Overrun("computeSegment")
       ELSE \E len \in AnyLengths(sampleCount) :
            \E samples \in ReadSamples(len, sampleCount) :
                ComputeSegment(samples, len)

SetupCall == \E n \in ValidCounts : \E fs \in Frequencies : Setup(n, fs)

SetupAny == \E n \in AnyCounts : \E fs \in AnyFrequencies : Setup(n, fs)

(***************************************************************************)
(* Two estimators used in turn from one execution context.  Each is a      *)
(* PSD object of its own; vReal and vImag exist once, at file scope, and   *)
(* every computeSegment works in them.                                     *)
(***************************************************************************)
\* PSD::setup(n, fs) on the object p
SetupOf(p, n, fs) ==
    [p EXCEPT !.sampleCount = n, !.sampleFrequency = fs,
              !.segmentCount = SetupCounter(p.segmentCount)]

\* PSD::clear() on the object p
ClearOf(p) == [p EXCEPT !.bins = ClearBins(p.bins, p.sampleCount)]

\* PSD::getResult() on the object p
GetResultOf(p) ==
    [p EXCEPT !.bins = ResultBins(p.bins, p.sampleCount, p.segmentCount),
              !.segmentCount = 0]

\* PSD::computeSegment on the object p, the transform having left
\* `magnitudes` in vReal
ComputeSegmentOf(p, magnitudes) ==
    [p EXCEPT !.bins = Accumulate(LazyReset(p.bins, p.sampleCount, p.segmentCount),
                                  magnitudes, p.sampleCount, p.sampleFrequency),
              !.segmentCount = p.segmentCount + 1]

SetupTwo(i, n, fs) ==
    /\ psd' = [psd EXCEPT ![i] = SetupOf(psd[i], n, fs)]
    /\ alone' = [alone EXCEPT ![i].psd = SetupOf(alone[i].psd, n, fs)]
    /\ crossed' = [crossed EXCEPT ![i] = FALSE]
    /\ UNCHANGED <<vReal, vImag, lastWriter>>
    /\ UNCHANGED oneVars

ClearTwo(i) ==
    /\ psd' = [psd EXCEPT ![i] = ClearOf(psd[i])]
    /\ alone' = [alone EXCEPT ![i].psd = ClearOf(alone[i].psd)]
    /\ UNCHANGED <<vReal, vImag, lastWriter, crossed>>
    /\ UNCHANGED oneVars

GetResultTwo(i) ==
    /\ psd' = [psd EXCEPT ![i] = GetResultOf(psd[i])]
    /\ alone' = [alone EXCEPT ![i].psd = GetResultOf(alone[i].psd)]
    /\ UNCHANGED <<vReal, vImag, lastWriter, crossed>>
    /\ UNCHANGED oneVars

\* computeSegment of estimator i: in the shared buffers, and as it would run
\* in buffers no other estimator had used
ComputeSegmentTwo(i, samples) ==
    /\ psd[i].segmentCount < MaxTwoSegments
    /\ \E shared \in {SegmentScratch(vReal, vImag, samples, psd[i].sampleCount)} :
       \E private \in {SegmentScratch(alone[i].vReal, alone[i].vImag, samples,
                                      alone[i].psd.sampleCount)} :
       /\ psd' = [psd EXCEPT ![i] = ComputeSegmentOf(psd[i], shared[1])]
       /\ vReal' = shared[1]
       /\ vImag' = shared[2]
       /\ alone' = [alone EXCEPT ![i] =
                        [psd |-> ComputeSegmentOf(alone[i].psd, private[1]),
                         vReal |-> private[1], vImag |-> private[2]]]
    /\ lastWriter' = i
    /\ crossed' = [crossed EXCEPT ![i] =
                      \/ /\ lastWriter \notin {0, i}
                         /\ <<vReal, vImag>> # <<alone[i].vReal, alone[i].vImag>>
                      \/ psd[i].segmentCount > 0 /\ crossed[i]]
    /\ UNCHANGED oneVars

SetupTwoCall ==
    \E i \in Instances : \E n \in ValidCounts : \E fs \in TwoFrequencies :
        SetupTwo(i, n, fs)

ComputeSegmentTwoCall ==
    \E i \in Instances : \E samples \in TwoSegments(psd[i].sampleCount) :
        ComputeSegmentTwo(i, samples)

GetResultTwoCall == \E i \in Instances : GetResultTwo(i)

ClearTwoCall == \E i \in Instances : ClearTwo(i)

(***************************************************************************)
(* Specifications                                                          *)
(***************************************************************************)
InitHistory ==
    /\ fault = "none"
    /\ lastOp = "setup"
    /\ argLen = -1
    /\ view = None
    /\ viewCleared = FALSE
    /\ fresh = None
    /\ supplied = 0
    /\ added = 0
    /\ dirty = FALSE
    /\ sameSeg = None
    /\ afterResult = FALSE
    /\ reread = FALSE
    /\ residual = Zero
    /\ prevBins = None
    /\ prevCount = 0
    /\ stale = None

\* an estimator after construction and its first setup(n, fs)
NewPsd(n, fs, b) ==
    [sampleCount |-> n, sampleFrequency |-> fs, segmentCount |-> 0, bins |-> b]

InitTwoHistory ==
    /\ alone = [i \in Instances |->
                   [psd |-> psd[i], vReal |-> ZeroArray, vImag |-> ZeroArray]]
    /\ lastWriter = 0
    /\ crossed = [i \in Instances |-> FALSE]

\* the estimator after construction and its first setup() by a caller that
\* keeps the contract
Init ==
    /\ sampleCount \in ValidCounts
    /\ sampleFrequency \in Frequencies
    /\ segmentCount = 0
    /\ bins \in InitialBins
    /\ vReal = ZeroArray
    /\ vImag = ZeroArray
    /\ InitHistory
    /\ psd = [i \in Instances |-> NewPsd(samplesCountMax, MaxFrequency, ZeroArray)]
    /\ InitTwoHistory

\* two estimators after construction and their first setup() by a caller
\* that keeps the contract
InitTwo ==
    /\ psd \in [Instances -> {NewPsd(n, fs, b) : n \in ValidCounts,
                                 fs \in TwoFrequencies, b \in InitialBins}]
    /\ vReal = ZeroArray
    /\ vImag = ZeroArray
    /\ InitTwoHistory
    /\ sampleCount = samplesCountMax
    /\ sampleFrequency = MaxFrequency
    /\ segmentCount = 0
    /\ bins = ZeroArray
    /\ InitHistory

Next == SetupCall \/ ComputeSegmentCall \/ GetResult \/ Clear

NextAny == SetupAny \/ ComputeSegmentAny \/ GetResult \/ Clear

\* callers keep the contract of setup and computeSegment
Spec == Init /\ [][Next]_vars

\* callers pass any arguments
SpecAny == Init /\ [][NextAny]_vars

NextTwo == SetupTwoCall \/ ComputeSegmentTwoCall \/ GetResultTwoCall \/ ClearTwoCall

\* two estimators, callers keep the contract
SpecTwo == InitTwo /\ [][NextTwo]_vars

(***************************************************************************)
(* Properties                                                              *)
(***************************************************************************)
\* some bin of the active configuration is not zero
SomeBinNonZero == \E i \in LoopIdx(sampleCount) : bins[i] # Zero

\* getResult was the last operation and read segments supplied without a
\* clear() between them
ReadSegments == lastOp = "getResult" /\ supplied >= 1 /\ ~dirty

\* what setup(n, fs), one computeSegment(samples) and getResult() return
SingleResult(samples, n, fs) ==
    ResultBins(Accumulate(ZeroArray,
                          SegmentScratch(ZeroArray, ZeroArray, samples, n)[1], n, fs),
               n, 1)

IsConstant(samples, n) == \A i \in LoopIdx(n) : samples[i] = samples[0]

\* C1 (lazy reset): whatever happened before, the bins getResult returns
\* after one or more computeSegment calls are those of an accumulator that
\* started from zero with the first of these segments: nothing of the earlier
\* finalized result is blended in.
C1_LazyReset ==
    ReadSegments =>
        \A i \in LoopIdx(sampleCount) :
            bins[i] = ResultBins(fresh, sampleCount, supplied)[i]

\* the segments read followed a getResult that had returned a nonzero result
C1_Witness == ReadSegments /\ afterResult /\ SomeBinNonZero

\* C2 (idempotence of getResult): a getResult that directly follows a
\* getResult finds the counter at 0 and changes neither a bin nor the counter,
\* so both calls return the same values.
C2_Idempotent ==
    [][(lastOp = "getResult" /\ lastOp' = "getResult")
        => (segmentCount = 0 /\ segmentCount' = 0 /\ bins' = bins)]_vars

\* two getResult calls in a row, after segments that left a nonzero result
C2_Witness == reread /\ supplied >= 1 /\ SomeBinNonZero

\* C3 (Welch averaging of identical segments): k >= 1 computeSegment calls
\* with one and the same segment followed by getResult return the bins of a
\* single computeSegment with that segment followed by getResult.
C3_IdenticalSegments ==
    (ReadSegments /\ sameSeg # None) =>
        \A i \in LoopIdx(sampleCount) :
            bins[i] = SingleResult(sameSeg, sampleCount, sampleFrequency)[i]

\* two or more identical segments were averaged to a nonzero result
C3_Witness == ReadSegments /\ sameSeg # None /\ supplied >= 2 /\ SomeBinNonZero

\* C4 (oversize setup is rejected): no computeSegment, getResult or clear
\* ever uses an index >= samplesCountMax of _bins, vReal or vImag, because
\* setup does not accept a sampleCount above samplesCountMax.
C4_NoOverrun == fault # "overrun"

\* C5 (zero configuration is rejected at setup): a sampleCount of 0 or a
\* sampleFrequency of 0 never becomes the active configuration.
C5_ZeroNeverActive == sampleCount # 0 /\ sampleFrequency # 0

\* C6 (segment-length mismatch is rejected): a computeSegment whose buffer
\* does not hold exactly sampleCount samples changes neither the accumulator
\* nor the counter.
C6_MismatchRejected ==
    [][(lastOp' = "computeSegment" /\ argLen' # sampleCount)
        => (bins' = bins /\ segmentCount' = segmentCount)]_vars

\* C7 as claimed (stability of the returned view): the bins getResult
\* returned keep their values across every getResult and clear, until the
\* next computeSegment or setup.
C7_StableUntilSegmentOrSetup == view # None => bins = view

\* C7 as amended: the bins getResult returned keep their values across
\* every later getResult, until the next computeSegment, setup or clear.
C7_StableAcrossReads == (view # None /\ ~viewCleared) => bins = view

\* a nonzero result was read twice in a row
C7_Witness == view # None /\ ~viewCleared /\ reread /\ SomeBinNonZero

\* C8 (zero-variance segment): one computeSegment of a segment whose
\* samples are all equal, then getResult, returns 0 (finite, not NaN) in
\* every bin, and the operation does not fail.
C8_ZeroVariance ==
    (ReadSegments /\ supplied = 1 /\ sameSeg # None
        /\ IsConstant(sameSeg, sampleCount)) =>
        /\ fault = "none"
        /\ \A i \in LoopIdx(sampleCount) : bins[i] = Zero

\* a full-width constant segment of nonzero samples was read
C8_Witness ==
    /\ ReadSegments /\ supplied = 1 /\ sameSeg # None
    /\ sampleCount = samplesCountMax
    /\ IsConstant(sameSeg, sampleCount) /\ sameSeg[0] # 0

\* C9 (capacity boundary): with sampleCount == samplesCountMax as the active
\* configuration, no computeSegment, getResult or clear runs off the end of
\* _bins, vReal or vImag.
C9_CapacityBoundary == sampleCount = samplesCountMax => fault # "overrun"

\* at full width, segments were accumulated, cleared by clear() and read
C9_Witness ==
    /\ sampleCount = samplesCountMax /\ fault = "none"
    /\ lastOp = "getResult" /\ supplied = MaxSegments /\ dirty

\* C10 (counter meaning): while segments are counted, the counter is the
\* number of segments added to the accumulator since it was last zeroed, a
\* clear() from outside included.
C10_CounterCountsSegments == segmentCount > 0 => segmentCount = added

\* C11 (DC removal uses the exact mean): after every computeSegment the
\* DC-removed samples sample[i] - mean sum to zero, the mean being subtracted
\* without truncation to the integer sample type.
C11_ResidualsSumToZero == lastOp = "computeSegment" => residual = Zero

\* C12 (finalization): a getResult called with the counter at c > 0 replaces
\* every bin i < sampleCount by (bin / c) * 1.59 * 1.59; after every getResult,
\* whatever the counter was, the counter is 0.
C12_Finalization ==
    [][(lastOp' = "getResult" /\ fault' = "none") =>
        /\ segmentCount' = 0
        /\ segmentCount > 0 =>
               \A i \in LoopIdx(sampleCount) :
                   bins'[i] = DMul(DMul(DDiv(bins[i], FromInt(segmentCount)),
                                        Dbl(159, 100)), Dbl(159, 100))]_vars

\* getResult has just averaged MaxSegments segments to a nonzero result
C12_Witness ==
    /\ lastOp = "getResult" /\ ~reread
    /\ supplied = MaxSegments /\ ~dirty /\ SomeBinNonZero

\* C13 (accumulation step): every computeSegment adds to each bin
\* i < sampleCount (as its lazy reset left it: zero when the counter was 0)
\* the value magnitude[i]^2 / sampleFrequency / sampleCount, twice for i > 0
\* and once for i = 0, and increases the counter by exactly 1; the counter
\* then equals the number of computeSegment calls since the estimator was Idle.
C13_AccumulationStep ==
    (lastOp = "computeSegment" /\ fault = "none") =>
        /\ segmentCount = prevCount + 1
        /\ segmentCount = supplied
        /\ \A i \in LoopIdx(sampleCount) :
               LET power == DDiv(DDiv(DSqr(vReal[i]), FromInt(sampleFrequency)),
                                 FromInt(sampleCount))
               IN  bins[i] = DAdd(prevBins[i], IF i > 0 THEN DAdd(power, power) ELSE power)

\* a full-width segment was added to earlier ones, with power in the DC bin
\* and in the highest bin
C13_Witness ==
    /\ lastOp = "computeSegment" /\ segmentCount = MaxSegments
    /\ sampleCount = samplesCountMax
    /\ bins[0] # Zero /\ bins[samplesCountMax - 1] # Zero

\* C14 (effect of setup): setup stores its arguments as sampleCount and
\* sampleFrequency, sets the counter to 0 and changes no bin; and every
\* getResult between it and the next computeSegment returns the bins as the
\* setup found them, not averaged, also when the setup came while segments
\* were being accumulated.
C14_SetupKeepsBins ==
    stale # None =>
        /\ sampleCount = stale.sampleCount
        /\ sampleFrequency = stale.sampleFrequency
        /\ segmentCount = 0
        /\ bins = stale.bins

\* a setup that changed sampleCount came while segments were counted, and
\* getResult then returned the nonzero sums
C14_Witness ==
    /\ stale # None /\ lastOp = "getResult"
    /\ stale.segmentCount > 0 /\ stale.previousCount # sampleCount
    /\ SomeBinNonZero

\* C15 (frame of clear): clear() sets the bins at the indices below
\* sampleCount to 0 and changes neither a bin at an index >= sampleCount nor
\* the counter nor the configuration.
C15_ClearFrame ==
    [][(lastOp' = "clear" /\ fault' = "none") =>
        /\ \A i \in BinIdx : bins'[i] = IF i < sampleCount THEN Zero ELSE bins[i]
        /\ segmentCount' = segmentCount
        /\ sampleCount' = sampleCount
        /\ sampleFrequency' = sampleFrequency]_vars

\* clear() ran while segments were counted and left a nonzero bin above the
\* active sampleCount
C15_Witness ==
    /\ lastOp = "clear" /\ segmentCount > 0
    /\ sampleCount < samplesCountMax /\ bins[samplesCountMax - 1] # Zero

\* C16 (configuration immutability): computeSegment, getResult and clear
\* leave sampleCount and sampleFrequency as they are; only setup changes them.
\* Of the estimator's fields, computeSegment changes the bins and the counter
\* only.
C16_ConfigurationImmutable ==
    [][lastOp' \in {"computeSegment", "getResult", "clear"} =>
        (sampleCount' = sampleCount /\ sampleFrequency' = sampleFrequency)]_vars

\* segments were accumulated, cleared and read at a width below the
\* capacity and at the highest sampling frequency
C16_Witness ==
    /\ lastOp = "getResult" /\ supplied = MaxSegments /\ dirty
    /\ sampleCount < samplesCountMax /\ sampleFrequency = MaxFrequency

\* C17 (instance isolation): with two estimators used in turn, in any
\* interleaving of whole operations, each one's configuration, counter and
\* bins are at every moment what they would be had the other one's
\* operations not occurred, although every computeSegment works in the same
\* vReal and vImag; so getResult of the one returns what it would return
\* without the other.
C17_InstanceIsolation == \A i \in Instances : psd[i] = alone[i].psd

\* estimator 2 has finalized a nonzero result of segments of which one was
\* computed in buffers estimator 1 had written last and left different from
\* those estimator 2 alone would have found
C17_Witness ==
    /\ crossed[2] /\ psd[2].segmentCount = 0
    /\ \E i \in LoopIdx(psd[2].sampleCount) : psd[2].bins[i] # Zero

====
